---- MODULE Spec2Model ----
(***************************************************************************)
(* Model of wipo_crawler.py: identifier discovery                          *)
(* (search_wipo_wo_numbers), page acquisition (fetch_detail_html), the     *)
(* label-driven extractor (parse_biblio_data) and the batch coordinator    *)
(* (search_wipo_patents / process_wo_safe / _process_wo_internal).         *)
(*                                                                         *)
(* A WO number is modelled by a positive integer k (standing for one       *)
(* string of the shape WO\d{4}\d{6}); 0 stands for "the regular expression *)
(* does not match".  Python's None is the string None below.               *)
(***************************************************************************)
EXTENDS Integers, Sequences, FiniteSets, TLC

\* ------------------------------------------------------------------ bounds
MaxIds == 3          \* distinct WO numbers the search service can return
MaxLinks == 3        \* <a href> elements in the search response
MaxResultsBound == 3 \* largest max_results tried
MaxFields == 2       \* label spans in a rendered detail document

Ids == 1..MaxIds
None == "None"

\* ------------------------------------------------------- generic helpers
Range(s) == {s[k] : k \in 1..Len(s)}

SeqsUpTo(S, n) == UNION {[1..k -> S] : k \in 0..n}

IsPrefix(s, t) == Len(s) <= Len(t) /\ \A k \in 1..Len(s) : s[k] = t[k]

\* s[:n] of Python for n >= 0
Slice(s, n) == SubSeq(s, 1, IF n < Len(s) THEN n ELSE Len(s))

\* ======================================================================
\* STEP 1: search_wipo_wo_numbers
\* ======================================================================

\* One <a href=...> of the search response.  detail: the href contains
\* 'detail.jsf?docId='; wo: the WO number matched by docId=(WO\d{4}\d{6})
\* in the href, 0 when the expression does not match.
Links == [detail : BOOLEAN, wo : 0..MaxIds]

\* The HTTP exchange of lines 79-80: status "ok", a non-success status
\* (raise_for_status raises) or a transport failure (client.get raises).
Responses == [status : {"ok", "http_error", "transport_error"},
              links : SeqsUpTo(Links, MaxLinks)]

\* lines 86-91: the loop over soup.find_all('a', href=True)
RECURSIVE MatchedWoNumbers(_)
MatchedWoNumbers(links) ==
    IF links = <<>> THEN <<>>
    ELSE LET link == Head(links)
             rest == MatchedWoNumbers(Tail(links))
         IN IF link.detail /\ link.wo # 0 THEN <<link.wo>> \o rest ELSE rest

\* line 94: list(dict.fromkeys(xs)) -- keys are inserted in iteration order,
\* a key already present keeps its first position.
RECURSIVE DictFromKeys(_, _)
DictFromKeys(xs, keys) ==
    IF xs = <<>> THEN keys
    ELSE DictFromKeys(Tail(xs),
                      IF Head(xs) \in Range(keys) THEN keys
                      ELSE Append(keys, Head(xs)))

\* The deduplicated list is not cut to max_results.
DedupAndLimit_NoLimit(xs, max_results) == DictFromKeys(xs, <<>>)

\* line 94
DedupAndLimit(xs, max_results) == Slice(DictFromKeys(xs, <<>>), max_results)

\* Only the status error of raise_for_status is handled.
DiscoveryCatches_StatusOnly(status) == status = "http_error"

\* line 99: except Exception around the request and the scan
DiscoveryCatches(status) == status \in {"http_error", "transport_error"}

\* lines 77-101; the result is [raised, value]
search_wipo_wo_numbers(response, max_results) ==
    IF response.status = "ok"
    THEN [raised |-> FALSE,
          value |-> DedupAndLimit(MatchedWoNumbers(response.links), max_results)]
    ELSE IF DiscoveryCatches(response.status)
         THEN [raised |-> FALSE, value |-> <<>>]
         ELSE [raised |-> TRUE, value |-> <<>>]

\* ======================================================================
\* STEP 3: parse_biblio_data and the label-driven field extractors
\* ======================================================================

\* Texts of <span class="ps-field--label"> elements (module docstring,
\* lines 21-27).
LabelTexts == {"Publication Number", "Title", "Abstract", "Applicants", "IPC", "CPC"}

\* re.compile(label_text, re.IGNORECASE) searched in the label's string: a
\* case-insensitive substring test.  Among the label texts above no text
\* contains another, so a label matches exactly its own pattern; the
\* pattern without the final dot matches the label that carries it.
Matches(pattern, text) ==
    \/ pattern = text
    \/ <<pattern, text>> \in {<<"International Application No", "International Application No.">>}

\* One label span of the rendered document together with what surrounds it:
\*   container  the label has an ancestor <div class="ps-field">
\*   value      text of the container's first span.ps-field--value after
\*              get_text(strip=True, separator=' '); None when the
\*              container has no such span, "" when it holds only blanks
\*   list       the container holds a <ul class="biblio-person-list">
\*   names      for each <li> of that list the text of its
\*              span.biblio-person-list--name (None when the <li> has none)
\*   codes      for each <div class="patent-classification"> of the
\*              container the text of its first <a> (None when it has none)
ScalarElements ==
    [label : {"Publication Number", "Title", "Abstract"}, container : BOOLEAN,
     value : {None, "", "text"}, list : {FALSE}, names : {<<>>}, codes : {<<>>}]

PersonElements ==
    [label : {"Applicants"}, container : {TRUE}, value : {"text"},
     list : BOOLEAN, names : {<<>>, <<"ACME">>, <<"", "ACME">>}, codes : {<<>>}]

ClassificationElements ==
    [label : {"IPC", "CPC"}, container : {TRUE}, value : {"text"},
     list : {FALSE}, names : {<<>>}, codes : {<<"C07D">>, <<"A61K", "">>}]

Elements == ScalarElements \cup PersonElements \cup ClassificationElements

\* A rendered document: its label spans in document order, and whether the
\* raw text holds the substring 'CPC' outside the label spans.
Documents == [elems : SeqsUpTo(Elements, MaxFields), cpc_elsewhere : BOOLEAN]

\* soup.find('span', class_='ps-field--label', string=re.compile(...)):
\* index of the first matching label in document order, 0 when none
FindLabel(doc, label_text) ==
    LET hits == {k \in 1..Len(doc.elems) : Matches(label_text, doc.elems[k].label)}
    IN IF hits = {} THEN 0 ELSE CHOOSE k \in hits : \A m \in hits : k <= m

\* lines 199-217
extract_field_by_label(doc, label_text) ==
    LET k == FindLabel(doc, label_text)
    IN IF k = 0 THEN None
       ELSE IF ~doc.elems[k].container THEN None
       ELSE IF doc.elems[k].value = None THEN None
       ELSE IF doc.elems[k].value # "" THEN doc.elems[k].value ELSE None

\* lines 253-259: names of the <li> entries, skipping missing and empty ones
RECURSIVE NonEmptyTexts(_)
NonEmptyTexts(texts) ==
    IF texts = <<>> THEN <<>>
    ELSE IF Head(texts) \in {None, ""} THEN NonEmptyTexts(Tail(texts))
    ELSE <<Head(texts)>> \o NonEmptyTexts(Tail(texts))

\* lines 239-261
extract_list_field(doc, label_text) ==
    LET k == FindLabel(doc, label_text)
    IN IF k = 0 THEN <<>>
       ELSE IF ~doc.elems[k].container THEN <<>>
       ELSE IF ~doc.elems[k].list THEN <<>>
       ELSE NonEmptyTexts(doc.elems[k].names)

\* lines 278-298
extract_ipc_codes(doc) ==
    LET k == FindLabel(doc, "IPC")
    IN IF k = 0 THEN <<>>
       ELSE IF ~doc.elems[k].container THEN <<>>
       ELSE NonEmptyTexts(doc.elems[k].codes)

\* line 341: 'CPC' in html
ContainsCPC(doc) ==
    doc.cpc_elsewhere \/ \E k \in 1..Len(doc.elems) : doc.elems[k].label = "CPC"

EmptyDict == [k \in {} |-> None]

\* dict.get(key), None for a missing key
Get(d, key) == IF key \in DOMAIN d THEN d[key] ELSE None

\* lines 344-356
BiblioData(doc) ==
    [publication_number |-> extract_field_by_label(doc, "Publication Number"),
     publication_date |-> extract_field_by_label(doc, "Publication Date"),
     application_number |-> extract_field_by_label(doc, "International Application No"),
     filing_date |-> extract_field_by_label(doc, "International Filing Date"),
     title |-> extract_field_by_label(doc, "Title"),
     abstract |-> extract_field_by_label(doc, "Abstract"),
     applicants |-> extract_list_field(doc, "Applicants"),
     inventors |-> extract_list_field(doc, "Inventors"),
     ipc_codes |-> extract_ipc_codes(doc),
     cpc_codes |-> IF ContainsCPC(doc) THEN extract_ipc_codes(doc) ELSE <<>>,
     priority_data |-> extract_field_by_label(doc, "Priority Data")]

\* The title is not required.
SuccessCriterion_PubOnly(pub_number, title) == pub_number # None

\* line 359: if pub_number and title
SuccessCriterion(pub_number, title) == pub_number # None /\ title # None

\* Where an exception can strike inside parse_biblio_data:
\*   "soup"    in BeautifulSoup(html, 'html.parser') (line 314, before the try)
\*   "fields"  inside the try before biblio_data is assigned (lines 325-341)
\*   "log"     in the logger call of line 361 or 363
ParseFaults == {"none", "soup", "fields", "log"}

\* lines 305-368; the result is [raised, data]
parse_biblio_data(doc, wo_number, fault) ==
    LET data0 == [wo_number |-> wo_number, source |-> "WIPO",
                  extraction_successful |-> FALSE, biblio_data |-> EmptyDict]
        bd == BiblioData(doc)
        data1 == [data0 EXCEPT !.biblio_data = bd]
        data2 == IF SuccessCriterion(bd.publication_number, bd.title)
                 THEN [data1 EXCEPT !.extraction_successful = TRUE]
                 ELSE data1
    IN IF fault = "soup" THEN [raised |-> TRUE, data |-> data0]
       ELSE IF fault = "fields" THEN [raised |-> FALSE, data |-> data0]
       ELSE [raised |-> FALSE, data |-> data2]

\* ======================================================================
\* State
\* ======================================================================
VARIABLES
    callback,      \* progress_callback: "absent", "returns" or "raises"
    max_results,   \* argument max_results
    response,      \* what the search service answers to the one GET
    pc,            \* position of search_wipo_patents
    wo_numbers,    \* local wo_numbers of search_wipo_patents
    i,             \* loop index of line 471 (1-based)
    results,       \* local results of search_wipo_patents
    ret,           \* value returned by search_wipo_patents (valid at "returned")
    raised_by,     \* what made search_wipo_patents raise, "none" otherwise
    stage,         \* position of the running unit (process_wo_safe and below)
    open,          \* WO numbers whose browser is running
    pending,       \* what fetch_detail_html delivers once the async-with exits
    html,          \* local html of fetch_detail_html / _process_wo_internal
    data,          \* value delivered by process_wo_safe (<<>> is None)
    cancelled,     \* the 60 s ceiling of the running unit has expired
    discovered,    \* history: value returned by search_wipo_wo_numbers
    started,       \* history: WO numbers process_wo_safe was called with
    sleeps,        \* history: completed asyncio.sleep(1) calls
    path,          \* history: <<stage, outcome>> steps of the unit, until
                   \* its result is collected
    parsed,        \* history: record returned by the unit's parse_biblio_data,
                   \* until the unit's result is collected
    log,           \* history: one summary per finished unit
    progress       \* history: calls of progress_callback, [i, pct]: the loop
                   \* index (0 for the call of line 455) and the percentage

inputs == <<callback, max_results, response>>
coord == <<pc, wo_numbers, i, results, ret, raised_by>>
unit == <<stage, open, pending, html, data, cancelled>>
history == <<discovered, started, sleeps, path, parsed, log, progress>>
vars == <<inputs, coord, unit, history>>

total == Len(wo_numbers)                         \* line 465
wo_number == wo_numbers[i]                       \* line 471

\* Exceptions: PlaywrightTimeout, Error (any other Exception),
\* CancelledError (BaseException, thrown into the unit by wait_for when the
\* ceiling expires) and TimeoutError (raised by wait_for itself).
Outcomes == {"ok", "PlaywrightTimeout", "Error"}

\* Outcomes of the awaits whose timeout and other failures are handled
\* alike (session set-up, browser.close()).
PlainOutcomes == {"ok", "Error"}

\* Search responses of the batch runs: every link is a detail link of a
\* WO number of its own.
BatchResponses ==
    {r \in Responses :
        /\ r.status # "ok" => r.links = <<>>
        /\ \A k \in 1..Len(r.links) : r.links[k].detail /\ r.links[k].wo # 0
        /\ \A k, m \in 1..Len(r.links) : k # m => r.links[k].wo # r.links[m].wo}

\* Documents page.content() can deliver once the gate of line 149 has seen
\* the text "Publication Number": the marker label is in the document.
RenderedDocs ==
    {d \in Documents :
        /\ ~d.cpc_elsewhere
        /\ \E k \in 1..Len(d.elems) : d.elems[k].label = "Publication Number"
        /\ \A k \in 1..Len(d.elems) :
              /\ d.elems[k].label \in {"Publication Number", "Title"}
              /\ d.elems[k].container
              /\ d.elems[k].value = "text"}

Idle ==
    /\ wo_numbers = <<>> /\ i = 0 /\ results = <<>> /\ ret = <<>>
    /\ raised_by = "none"
    /\ stage = "idle" /\ open = {} /\ pending = "none" /\ html = <<>>
    /\ data = <<>> /\ cancelled = FALSE
    /\ discovered = <<>> /\ started = <<>> /\ sleeps = 0
    /\ path = <<>> /\ parsed = <<>> /\ log = <<>> /\ progress = <<>>

Init ==
    /\ callback \in {"absent", "returns", "raises"}
    /\ max_results \in 1..MaxResultsBound
    /\ response \in BatchResponses
    /\ pc = "begin"
    /\ Idle

\* ======================================================================
\* STEP 4: process_wo_safe / _process_wo_internal
\* ======================================================================

\* Only the timeout of wait_for is handled.
UnitCatches_TimeoutOnly(exc) == exc = "TimeoutError"

\* lines 393-398: except asyncio.TimeoutError, except Exception
UnitCatches(exc) == exc \in {"TimeoutError", "PlaywrightTimeout", "Error"}

\* The cancellation is passed on as it is.
WaitFor_NoConversion(exc) == exc

\* lines 387-390: wait_for turns the cancellation it caused into TimeoutError
WaitFor(exc) == IF exc = "CancelledError" THEN "TimeoutError" ELSE exc

\* The record is handed on whatever its success flag.
InternalResult_Unfiltered(record) == <<record>>

\* lines 413-420: the record is handed on only when extraction succeeded
InternalResult(record) ==
    IF ~record.extraction_successful THEN <<>> ELSE <<record>>

\* The unit is over: value is what _process_wo_internal returned, exc the
\* exception that left it ("none" when it returned).  process_wo_safe
\* returns the value, or None for an exception it catches; any other
\* exception reaches search_wipo_patents, which has no handler.
UnitEnds(value, exc, acquired, extracted, timeout) ==
    /\ log' = Append(log, [wo |-> wo_number, acquired |-> acquired,
                           extracted |-> extracted, timeout |-> timeout])
    /\ html' = <<>>
    /\ pending' = "none"
    /\ IF exc = "none" \/ UnitCatches(WaitFor(exc))
       THEN /\ data' = IF exc = "none" THEN value ELSE <<>>
            /\ stage' = "unit_done"
            /\ UNCHANGED <<pc, raised_by>>
       ELSE /\ stage' = "idle"
            /\ pc' = "raised"
            /\ raised_by' = "unit"
            /\ UNCHANGED data

\* ======================================================================
\* STEP 2: fetch_detail_html
\* ======================================================================

\* The ceiling does not reach a unit that is closing its browser.
AwaitStages_CloseNotCancellable ==
    {"pw_start", "launch", "new_context", "new_page", "goto", "settle", "gate",
     "content", "pw_exit"}

\* Stages at which fetch_detail_html is suspended in an await
AwaitStages == {"pw_start", "launch", "new_context", "new_page", "goto", "settle",
                "gate", "gate_close", "content", "ok_close", "timeout_close",
                "error_close", "pw_exit"}

\* Awaits inside the try of line 134 (the handlers of lines 143 and 153 are
\* themselves inside it)
InnerTry == {"goto", "settle", "gate", "gate_close", "content", "ok_close"}

\* A navigation timeout is swallowed like a settle timeout.
HandlerStage_GotoSwallowed(st, exc) ==
    IF exc = "CancelledError" THEN "pw_exit"
    ELSE IF st \in {"goto", "settle"} /\ exc = "PlaywrightTimeout"
         THEN IF st = "goto" THEN "settle" ELSE "gate"
    ELSE IF st = "gate" /\ exc = "PlaywrightTimeout" THEN "gate_close"
    ELSE IF st \in InnerTry
         THEN IF exc = "PlaywrightTimeout" THEN "timeout_close" ELSE "error_close"
    ELSE "pw_exit"

\* A settle timeout ends the call like a navigation timeout.
HandlerStage_SettleFatal(st, exc) ==
    IF exc = "CancelledError" THEN "pw_exit"
    ELSE IF st = "gate" /\ exc = "PlaywrightTimeout" THEN "gate_close"
    ELSE IF st \in InnerTry
         THEN IF exc = "PlaywrightTimeout" THEN "timeout_close" ELSE "error_close"
    ELSE "pw_exit"

\* A gate timeout is swallowed like a settle timeout.
HandlerStage_GateSwallowed(st, exc) ==
    IF exc = "CancelledError" THEN "pw_exit"
    ELSE IF st = "settle" /\ exc = "PlaywrightTimeout" THEN "gate"
    ELSE IF st = "gate" /\ exc = "PlaywrightTimeout" THEN "content"
    ELSE IF st \in InnerTry
         THEN IF exc = "PlaywrightTimeout" THEN "timeout_close" ELSE "error_close"
    ELSE "pw_exit"

\* Where control goes when exc is raised by the await of stage st:
\* line 143 (settle timeout is swallowed), line 153 (gate timeout), lines
\* 165 and 170 (handlers of the inner try); everything else, and every
\* CancelledError, leaves the async-with block of line 122.
HandlerStage(st, exc) ==
    IF exc = "CancelledError" THEN "pw_exit"
    ELSE IF st = "settle" /\ exc = "PlaywrightTimeout" THEN "gate"
    ELSE IF st = "gate" /\ exc = "PlaywrightTimeout" THEN "gate_close"
    ELSE IF st \in InnerTry
         THEN IF exc = "PlaywrightTimeout" THEN "timeout_close" ELSE "error_close"
    ELSE "pw_exit"

\* line 175: except Exception around the async-with block
FetchCatches(exc) == exc \in {"PlaywrightTimeout", "Error"}

\* browser.close() of lines 155, 160, 167, 172
BrowserClose(sessions, wo) == sessions \ {wo}

\* Leaving the block leaves the browser running.
PlaywrightStop_Leak(sessions, wo) == sessions

\* Leaving "async with async_playwright()" (line 122) stops the Playwright
\* driver, which terminates every browser it launched.
PlaywrightStop(sessions, wo) == sessions \ {wo}

\* The await of stage st ends with outcome; nextOk is the stage after a
\* normal completion.
Step(st, outcome, nextOk) ==
    /\ stage = st
    /\ path' = Append(path, <<st, outcome>>)
    /\ stage' = IF outcome = "ok" THEN nextOk ELSE HandlerStage(st, outcome)

\* The value or exception fetch_detail_html leaves the async-with with
Deliver(outcome, st, onOk) ==
    pending' = IF outcome = "ok" THEN onOk
               ELSE IF HandlerStage(st, outcome) = "pw_exit" THEN outcome
               ELSE pending

\* fetch_detail_html is over with p (a return or an exception in flight).
\* lines 175-177, 405-408
FetchReturns(p) ==
    IF p = "return_html"
    THEN /\ stage' = "parse"
         /\ pending' = "none"
         /\ UNCHANGED <<html, data, log, pc, raised_by>>
    ELSE IF p = "return_none" \/ FetchCatches(p)
    THEN UnitEnds(<<>>, "none", FALSE, FALSE, FALSE)
    ELSE UnitEnds(<<>>, p, FALSE, FALSE, p = "CancelledError")

\* line 122: async_playwright().__aenter__()
PwStart ==
    /\ stage = "pw_start"
    /\ \E outcome \in {"ok", "Error"} :
          /\ path' = Append(path, <<"pw_start", outcome>>)
          /\ IF outcome = "ok"
             THEN /\ stage' = "launch"
                  /\ UNCHANGED <<html, data, log, pc, raised_by, pending>>
             ELSE FetchReturns(outcome)
    /\ UNCHANGED <<inputs, wo_numbers, i, results, ret, open, cancelled,
                   discovered, started, sleeps, parsed, progress>>

\* line 124: p.chromium.launch
Launch ==
    /\ \E outcome \in PlainOutcomes :
          /\ Step("launch", outcome, "new_context")
          /\ Deliver(outcome, "launch", pending)
          /\ open' = IF outcome = "ok" THEN open \cup {wo_number} ELSE open
    /\ UNCHANGED <<inputs, coord, html, data, cancelled,
                   discovered, started, sleeps, parsed, log, progress>>

\* lines 125-128: browser.new_context
NewContext ==
    /\ \E outcome \in PlainOutcomes :
          /\ Step("new_context", outcome, "new_page")
          /\ Deliver(outcome, "new_context", pending)
    /\ UNCHANGED <<inputs, coord, open, html, data, cancelled,
                   discovered, started, sleeps, parsed, log, progress>>

\* lines 129-132: context.new_page, page.set_default_timeout
NewPage ==
    /\ \E outcome \in PlainOutcomes :
          /\ Step("new_page", outcome, "goto")
          /\ Deliver(outcome, "new_page", pending)
    /\ UNCHANGED <<inputs, coord, open, html, data, cancelled,
                   discovered, started, sleeps, parsed, log, progress>>

\* lines 136-137: page.goto
Goto ==
    /\ \E outcome \in Outcomes :
          /\ Step("goto", outcome, "settle")
          /\ Deliver(outcome, "goto", pending)
    /\ UNCHANGED <<inputs, coord, open, html, data, cancelled,
                   discovered, started, sleeps, parsed, log, progress>>

\* lines 141-144: page.wait_for_load_state("networkidle")
Settle ==
    /\ \E outcome \in Outcomes :
          /\ Step("settle", outcome, "gate")
          /\ Deliver(outcome, "settle", pending)
    /\ UNCHANGED <<inputs, coord, open, html, data, cancelled,
                   discovered, started, sleeps, parsed, log, progress>>

\* lines 148-154: page.wait_for_selector('text="Publication Number"')
Gate ==
    /\ \E outcome \in Outcomes :
          /\ Step("gate", outcome, "content")
          /\ Deliver(outcome, "gate", pending)
    /\ UNCHANGED <<inputs, coord, open, html, data, cancelled,
                   discovered, started, sleeps, parsed, log, progress>>

\* line 159: html = await page.content()
Content ==
    /\ \E outcome \in Outcomes :
          /\ Step("content", outcome, "ok_close")
          /\ Deliver(outcome, "content", pending)
          /\ IF outcome = "ok"
             THEN \E d \in RenderedDocs : html' = <<d>>
             ELSE html' = html
    /\ UNCHANGED <<inputs, coord, open, data, cancelled,
                   discovered, started, sleeps, parsed, log, progress>>

\* lines 155-156, 160-163, 167-168, 172-173: await browser.close(), return
CloseAndReturn ==
    /\ \E st \in {"gate_close", "ok_close", "timeout_close", "error_close"} :
       \E outcome \in PlainOutcomes :
          /\ Step(st, outcome, "pw_exit")
          /\ Deliver(outcome, st,
                     IF st = "ok_close" THEN "return_html" ELSE "return_none")
          /\ open' = IF outcome = "ok" THEN BrowserClose(open, wo_number) ELSE open
    /\ UNCHANGED <<inputs, coord, html, data, cancelled,
                   discovered, started, sleeps, parsed, log, progress>>

\* line 122: the async-with block is left, with a return value or an
\* exception in flight
PwExit ==
    /\ stage = "pw_exit"
    /\ path' = Append(path, <<"pw_exit", "ok">>)
    /\ open' = PlaywrightStop(open, wo_number)
    /\ FetchReturns(pending)
    /\ UNCHANGED <<inputs, wo_numbers, i, results, ret, cancelled,
                   discovered, started, sleeps, parsed, progress>>

\* lines 387-390: the 60 s of asyncio.wait_for expire while the unit is
\* suspended in an await; CancelledError is thrown into that await.  A
\* launch that is interrupted may or may not have started the browser.
\* An interrupted __aenter__ has no __aexit__; an interrupted __aexit__ has
\* already asked the driver to stop.
Cancel ==
    /\ stage \in AwaitStages
    /\ ~cancelled
    /\ cancelled' = TRUE
    /\ path' = Append(path, <<stage, "CancelledError">>)
    /\ IF stage = "pw_start"
       THEN /\ UnitEnds(<<>>, "CancelledError", FALSE, FALSE, TRUE)
            /\ UNCHANGED open
       ELSE IF stage = "pw_exit"
       THEN /\ UnitEnds(<<>>, "CancelledError", FALSE, FALSE, TRUE)
            /\ open' = PlaywrightStop(open, wo_number)
       ELSE /\ stage' = HandlerStage(stage, "CancelledError")
            /\ pending' = "CancelledError"
            /\ \E launched \in BOOLEAN :
                  open' = IF stage = "launch" /\ launched
                          THEN open \cup {wo_number} ELSE open
            /\ UNCHANGED <<html, data, log, pc, raised_by>>
    /\ UNCHANGED <<inputs, wo_numbers, i, results, ret,
                   discovered, started, sleeps, parsed, progress>>

\* lines 410-420 and 391: parse, test the success flag, return
Parse ==
    /\ stage = "parse"
    /\ \E fault \in ParseFaults :
          LET r == parse_biblio_data(html[1], wo_number, fault)
          IN /\ path' = Append(path, <<"parse", IF r.raised THEN "Error" ELSE "ok">>)
             /\ IF r.raised
                THEN /\ parsed' = <<>>
                     /\ UnitEnds(<<>>, "Error", TRUE, FALSE, FALSE)
                ELSE /\ parsed' = <<r.data>>
                     /\ UnitEnds(InternalResult(r.data), "none", TRUE,
                                 r.data.extraction_successful, FALSE)
    /\ UNCHANGED <<inputs, wo_numbers, i, results, ret, open, cancelled,
                   discovered, started, sleeps, progress>>

\* ======================================================================
\* MAIN API FUNCTION: search_wipo_patents
\* ======================================================================

\* The percentage is rounded to the nearest integer.
ProgressPct_Rounded(k, n) == (2 * k * 100 + n) \div (2 * n)

\* The percentage of the identifiers already finished.
ProgressPct_Finished(k, n) == ((k - 1) * 100) \div n

\* line 475: int((i / total) * 100).  For every total below 50 the float
\* product truncates to the exact quotient.
ProgressPct(k, n) == (k * 100) \div n

\* One call of progress_callback: a callback that raises does so on any
\* call; the exception is not handled anywhere in search_wipo_patents.
CallProgress(k, pct, next) ==
    IF callback = "absent"
    THEN /\ pc' = next
         /\ UNCHANGED <<progress, raised_by>>
    ELSE /\ progress' = Append(progress, [i |-> k, pct |-> pct])
         /\ \E raises \in {FALSE, callback = "raises"} :
               IF raises
               THEN pc' = "raised" /\ raised_by' = "progress_callback"
               ELSE pc' = next /\ UNCHANGED raised_by

\* lines 451-455
Begin ==
    /\ pc = "begin"
    /\ CallProgress(0, 0, "discover")
    /\ UNCHANGED <<inputs, wo_numbers, i, results, ret, unit,
                   discovered, started, sleeps, path, parsed, log>>

\* lines 457-470
Discover ==
    /\ pc = "discover"
    /\ LET r == search_wipo_wo_numbers(response, max_results)
       IN IF r.raised
          THEN /\ pc' = "raised"
               /\ raised_by' = "discovery"
               /\ UNCHANGED <<wo_numbers, i, results, ret, discovered>>
          ELSE /\ discovered' = r.value
               /\ IF r.value = <<>>
                  THEN /\ ret' = <<>>
                       /\ pc' = "returned"
                       /\ UNCHANGED <<wo_numbers, i, results, raised_by>>
                  ELSE /\ wo_numbers' = Slice(r.value, max_results)
                       /\ results' = <<>>
                       /\ i' = 1
                       /\ pc' = "progress"
                       /\ UNCHANGED <<ret, raised_by>>
    /\ UNCHANGED <<inputs, unit, started, sleeps, path, parsed, log,
                   progress>>

\* lines 471-476
Progress ==
    /\ pc = "progress"
    /\ CallProgress(i, ProgressPct(i, total), "call_unit")
    /\ UNCHANGED <<inputs, wo_numbers, i, results, ret, unit,
                   discovered, started, sleeps, path, parsed, log>>

\* line 479 down to line 122: process_wo_safe, wait_for,
\* _process_wo_internal and fetch_detail_html are entered
StartUnit ==
    /\ pc = "call_unit"
    /\ pc' = "await_unit"
    /\ started' = Append(started, wo_number)
    /\ stage' = "pw_start"
    /\ cancelled' = FALSE
    /\ pending' = "none"
    /\ html' = <<>>
    /\ path' = <<>>
    /\ parsed' = <<>>
    /\ UNCHANGED <<inputs, wo_numbers, i, results, ret, raised_by, open, data,
                   discovered, sleeps, log, progress>>

\* The record is put in front of the list.
CollectResult_Prepend(rs, d) == IF d # <<>> THEN <<d[1]>> \o rs ELSE rs

\* lines 481-482: if data: results.append(data)
CollectResult(rs, d) == IF d # <<>> THEN Append(rs, d[1]) ELSE rs

\* The pacing delay follows every identifier, the last one too.
PacingDue_Always(k, n) == TRUE

\* line 485: if i < total
PacingDue(k, n) == k < n

\* lines 479-485: process_wo_safe has returned
Collect ==
    /\ pc = "await_unit"
    /\ stage = "unit_done"
    /\ stage' = "idle"
    /\ results' = CollectResult(results, data)
    /\ pc' = IF PacingDue(i, total) THEN "sleep" ELSE "return"
    /\ data' = <<>>
    /\ path' = <<>>
    /\ parsed' = <<>>
    /\ UNCHANGED <<inputs, wo_numbers, i, ret, raised_by, open, pending, html,
                   cancelled, discovered, started, sleeps, log, progress>>

\* line 486, then line 471: the next iteration, or the end of the loop
\* when the identifiers are used up
Sleep ==
    /\ pc = "sleep"
    /\ sleeps' = sleeps + 1
    /\ i' = IF i < total THEN i + 1 ELSE i
    /\ pc' = IF i < total THEN "progress" ELSE "return"
    /\ UNCHANGED <<inputs, wo_numbers, results, ret, raised_by, unit,
                   discovered, started, path, parsed, log, progress>>

\* lines 488-490
Return ==
    /\ pc = "return"
    /\ ret' = results
    /\ pc' = "returned"
    /\ UNCHANGED <<inputs, wo_numbers, i, results, raised_by, unit, history>>

Next ==
    \/ Begin \/ Discover \/ Progress \/ StartUnit
    \/ PwStart \/ Launch \/ NewContext \/ NewPage \/ Goto \/ Settle \/ Gate
    \/ Content \/ CloseAndReturn \/ PwExit \/ Cancel \/ Parse
    \/ Collect \/ Sleep \/ Return

Spec == Init /\ [][Next]_vars

\* The batch run with the progress the event loop guarantees: the timer of
\* wait_for fires while the unit is suspended (Cancel), the driver stops
\* when the async-with block is left (PwExit), synchronous code runs on
\* (Parse, Collect, Return), the pacing timer fires (Sleep), the search
\* request is bounded by the 30 s client timeout (Discover) and the
\* progress callback returns or raises (Begin, Progress).  No await of
\* fetch_detail_html is assumed to complete by itself.  The identifiers
\* come in ascending order and max_results is the largest one: which
\* identifier a unit works on does not change the steps it can take; a
\* callback that may raise takes every step of one that always returns.
InitFair ==
    /\ Init
    /\ callback # "returns"
    /\ max_results = MaxResultsBound
    /\ \A k \in 1..Len(response.links) : response.links[k].wo = k

FairSpec ==
    /\ InitFair /\ [][Next]_vars
    /\ WF_vars(Begin) /\ WF_vars(Discover) /\ WF_vars(Progress)
    /\ WF_vars(StartUnit) /\ WF_vars(Cancel) /\ WF_vars(PwExit)
    /\ WF_vars(Parse) /\ WF_vars(Collect) /\ WF_vars(Sleep) /\ WF_vars(Return)

\* ----------------------------------------------------------------------
\* search_wipo_wo_numbers on every bounded search response
\* ----------------------------------------------------------------------
InitDiscover ==
    /\ callback = "absent"
    /\ max_results \in 1..MaxResultsBound
    /\ response \in Responses
    /\ pc = "discover"
    /\ Idle

NextDiscover == Discover

SpecDiscover == InitDiscover /\ [][NextDiscover]_vars

\* ----------------------------------------------------------------------
\* parse_biblio_data on every bounded rendered document
\* ----------------------------------------------------------------------
InitExtract ==
    /\ callback = "absent"
    /\ max_results = 1
    /\ response = [status |-> "ok", links |-> <<[detail |-> TRUE, wo |-> 1]>>]
    /\ pc = "await_unit"
    /\ wo_numbers = <<1>> /\ i = 1 /\ results = <<>> /\ ret = <<>>
    /\ raised_by = "none"
    /\ stage = "parse" /\ open = {} /\ pending = "none"
    /\ \E d \in Documents : html = <<d>>
    /\ data = <<>> /\ cancelled = FALSE
    /\ discovered = <<1>> /\ started = <<1>> /\ sleeps = 0
    /\ path = <<>> /\ parsed = <<>> /\ log = <<>> /\ progress = <<>>

NextExtract == Parse

SpecExtract == InitExtract /\ [][NextExtract]_vars

\* ======================================================================
\* Properties
\* ======================================================================

\* search_wipo_patents is over without progress_callback having raised
RunOver == pc = "returned" \/ (pc = "raised" /\ raised_by # "progress_callback")

\* The unit summarised by log[k] produced a record
Succeeded(k) == log[k].acquired /\ log[k].extracted /\ ~log[k].timeout

Visited(st, outcome) == <<st, outcome>> \in Range(path)

\* C1: one unit is started for every identifier, in discovery order, none
\* twice and none skipped, whatever happened to the units before it: the
\* started units are always a prefix of wo_numbers, exactly i of them once
\* the i-th is under way, and all of them when the run is over.
C1_EveryIdentifierStartedOnce ==
    /\ IsPrefix(started, wo_numbers)
    /\ pc \in {"await_unit", "sleep", "return"} => Len(started) = i
    /\ pc \in {"progress", "call_unit"} => Len(started) = i - 1
    /\ RunOver => started = wo_numbers

C1_Witness ==
    /\ pc = "returned" /\ total = 3 /\ started = wo_numbers /\ Len(log) = 3
    /\ log[1].timeout
    /\ ~log[2].acquired /\ ~log[2].timeout
    /\ log[3].acquired /\ ~log[3].extracted

\* C2: whenever fetch_detail_html is not running (it has returned, or was
\* left by an exception), no browser session is open.
C2_NoSessionAfterFetch == stage \notin AwaitStages => open = {}

C2_Witness ==
    /\ stage = "unit_done" /\ ~cancelled
    /\ Visited("launch", "ok") /\ Visited("new_context", "Error")
    /\ open = {}

\* C3: when the ceiling expires while the session is open, the session is
\* gone once the cancelled unit is over and when the next unit is called,
\* and neither the cancellation nor the return of the cancelled unit changes
\* the coordinator's state, except that the loop moves on without a record.
C3_CancellationReleasesSession ==
    [][ /\ (cancelled' /\ stage' \notin AwaitStages) => open' = {}
        /\ pc' = "call_unit" => open' = {}
        /\ (~cancelled /\ cancelled') =>
              UNCHANGED <<pc, wo_numbers, i, results, ret, raised_by, started,
                          sleeps, progress>>
        /\ (cancelled /\ stage = "unit_done" /\ stage' # "unit_done") =>
              /\ pc' \in {"sleep", "return"}
              /\ UNCHANGED <<wo_numbers, i, results, ret, raised_by, started,
                             sleeps, progress>> ]_vars

C3_Witness ==
    /\ cancelled /\ stage = "unit_done" /\ i < total
    /\ Visited("launch", "ok") /\ Visited("gate", "CancelledError")
    /\ open = {} /\ data = <<>>

\* C4: fetch_detail_html delivers a document only after the gate has seen
\* the marker; after a gate timeout page.content() is never called, the
\* call delivers no document and the session is closed when it is over.
C4_DocumentOnlyAfterGate ==
    /\ stage = "parse" => Visited("gate", "ok") /\ html # <<>>
    /\ Visited("gate", "PlaywrightTimeout") =>
          /\ \A o \in Outcomes \cup {"CancelledError"} : ~Visited("content", o)
          /\ stage \notin {"content", "ok_close", "parse"}
          /\ html = <<>>
          /\ stage = "unit_done" =>
                open = {} /\ data = <<>> /\ ~log[Len(log)].acquired

C4_Witness ==
    /\ stage = "unit_done" /\ ~cancelled
    /\ Visited("gate", "PlaywrightTimeout") /\ Visited("gate_close", "ok")
    /\ data = <<>>

\* C5: the returned sequence holds a record of an identifier exactly when
\* that identifier's unit acquired a document, extraction succeeded and the
\* ceiling did not expire; every returned record has extraction_successful
\* true and no identifier has two records.
C5_RecordIffUnitSucceeded ==
    (pc = "returned" /\ wo_numbers # <<>>) =>
        /\ Len(log) = total
        /\ \A k \in 1..total :
              /\ log[k].wo = wo_numbers[k]
              /\ (\E n \in 1..Len(ret) : ret[n].wo_number = wo_numbers[k])
                    <=> Succeeded(k)
        /\ \A n \in 1..Len(ret) :
              /\ ret[n].extraction_successful
              /\ ret[n].wo_number \in Range(wo_numbers)
        /\ \A n, m \in 1..Len(ret) :
              ret[n].wo_number = ret[m].wo_number => n = m

C5_Witness ==
    /\ pc = "returned" /\ Len(ret) = 1 /\ total = 3
    /\ \E k \in 1..total : log[k].acquired /\ ~log[k].extracted
    /\ \E k \in 1..total : log[k].timeout

\* Position of identifier w in wo_numbers
IndexOf(w) == CHOOSE k \in 1..total : wo_numbers[k] = w

\* C6: the records collected so far, and the records returned, follow the
\* order of their identifiers in wo_numbers.
C6_OrderPreserved ==
    /\ \A n, m \in 1..Len(results) :
          n < m => IndexOf(results[n].wo_number) < IndexOf(results[m].wo_number)
    /\ pc = "returned" =>
          \A n, m \in 1..Len(ret) :
             n < m => IndexOf(ret[n].wo_number) < IndexOf(ret[m].wo_number)

C6_Witness ==
    /\ pc = "returned" /\ total = 3 /\ Len(ret) = 2
    /\ ~log[2].acquired /\ ~log[2].timeout
    /\ ret[1].wo_number = wo_numbers[1] /\ ret[2].wo_number = wo_numbers[3]
    /\ wo_numbers[1] > wo_numbers[3]

Present(d, key) == Get(d, key) \notin {None, ""}

\* C7: a record returned by parse_biblio_data has extraction_successful
\* true exactly when its fields hold a publication number and a title.
C7_SuccessIffNumberAndTitle ==
    parsed # <<>> =>
        (parsed[1].extraction_successful
            <=> /\ Present(parsed[1].biblio_data, "publication_number")
                /\ Present(parsed[1].biblio_data, "title"))

C7_Witness ==
    /\ parsed # <<>>
    /\ ~parsed[1].extraction_successful
    /\ Present(parsed[1].biblio_data, "publication_number")
    /\ Present(parsed[1].biblio_data, "abstract")
    /\ ~Present(parsed[1].biblio_data, "title")

\* C8: search_wipo_patents never raises because of the discovery or of a
\* unit; with a progress callback that does not raise (or none) it never
\* raises at all.
C8_BatchNeverRaises ==
    /\ raised_by \notin {"discovery", "unit"}
    /\ callback # "raises" => pc # "raised"

C8_Witness ==
    /\ pc = "returned" /\ ret = <<>> /\ total = 3 /\ callback = "returns"
    /\ ~log[1].acquired /\ ~log[1].timeout
    /\ log[2].acquired /\ ~log[2].extracted
    /\ log[3].timeout

\* Position of the first occurrence of w in the sequence s
FirstIndex(s, w) == CHOOSE k \in 1..Len(s) : s[k] = w /\ \A m \in 1..(k - 1) : s[m] # w

Min(a, b) == IF a < b THEN a ELSE b

\* C9: for a successful search response, search_wipo_wo_numbers returns the
\* first max_results distinct matched identifiers in first-seen order.
C9_FirstDistinctIdentifiers ==
    (pc # "discover" /\ response.status = "ok") =>
        LET m == MatchedWoNumbers(response.links)
        IN /\ Len(discovered) = Min(max_results, Cardinality(Range(m)))
           /\ \A a \in 1..Len(discovered) : discovered[a] \in Range(m)
           /\ \A a, b \in 1..Len(discovered) :
                 a < b => FirstIndex(m, discovered[a]) < FirstIndex(m, discovered[b])
           /\ \A w \in Range(m) \ Range(discovered) :
                 \A a \in 1..Len(discovered) :
                    FirstIndex(m, discovered[a]) < FirstIndex(m, w)

C9_Witness ==
    /\ pc = "progress" /\ response.status = "ok"
    /\ Len(MatchedWoNumbers(response.links)) > Cardinality(Range(MatchedWoNumbers(response.links)))
    /\ Cardinality(Range(MatchedWoNumbers(response.links))) > max_results
    /\ Len(discovered) = max_results

\* The discovery call of line 457 is over and progress_callback has not
\* stopped the run
PastDiscovery ==
    pc \notin {"begin", "discover"} /\ ~(pc = "raised" /\ raised_by = "progress_callback")

\* C10: a failed search request makes the discovery return an empty
\* sequence without raising, and after an empty discovery the run has
\* returned an empty sequence at once: no browser, no unit, no pacing sleep.
C10_EmptyDiscoveryReturnsAtOnce ==
    /\ (PastDiscovery /\ response.status # "ok") =>
          raised_by = "none" /\ discovered = <<>>
    /\ (PastDiscovery /\ discovered = <<>>) =>
          /\ pc = "returned" /\ ret = <<>>
          /\ open = {} /\ stage = "idle" /\ path = <<>>
          /\ started = <<>> /\ sleeps = 0

C10_Witness ==
    /\ pc = "returned" /\ response.status = "transport_error"
    /\ ret = <<>> /\ started = <<>> /\ callback = "returns"

\* Calls of progress_callback made for an identifier (line 476)
IdentifierCalls == {k \in 1..Len(progress) : progress[k].i >= 1}

\* C11 as stated: the percentage handed over for identifier i of total is
\* i*100/total rounded to the nearest integer (67 for i = 2, total = 3).
C11_PercentIsRounded ==
    \A k \in IdentifierCalls :
        LET p == progress[k].pct
        IN /\ 2 * p * total <= 2 * progress[k].i * 100 + total
           /\ 2 * progress[k].i * 100 + total < 2 * (p + 1) * total

\* C11 amended: the percentage handed over for identifier i of total is
\* i*100/total cut down to an integer (66 for i = 2, total = 3): the
\* largest p with p*total <= i*100.
C11_PercentIsTruncated ==
    \A k \in IdentifierCalls :
        LET p == progress[k].pct
        IN /\ p * total <= progress[k].i * 100
           /\ progress[k].i * 100 < (p + 1) * total

C11_Witness ==
    /\ total = 3
    /\ \E k \in IdentifierCalls : progress[k].i = 2 /\ progress[k].pct = 66

Last(s) == s[Len(s)]

\* C12: progress_callback is called with strictly increasing identifier
\* indices; the call for identifier i is made when the units of the i-1
\* identifiers before it are over and before the unit of i is started; every
\* percentage lies in 0..100, the percentages never decrease, and the last
\* one of a finished batch is 100.
C12_ProgressOrdered ==
    [][ /\ \A k \in 1..Len(progress') : progress'[k].pct \in 0..100
        /\ \A k \in 1..(Len(progress') - 1) :
              /\ progress'[k].i < progress'[k + 1].i
              /\ progress'[k].pct <= progress'[k + 1].pct
        /\ (Len(progress') > Len(progress) /\ Last(progress').i >= 1) =>
              /\ Len(started) = Last(progress').i - 1
              /\ Len(log) = Last(progress').i - 1
              /\ stage = "idle"
              /\ started' = started
        /\ (Len(started') > Len(started) /\ callback # "absent") =>
              /\ progress # <<>>
              /\ Last(progress).i = Len(started')
        /\ (pc' = "returned" /\ wo_numbers' # <<>> /\ callback # "absent") =>
              /\ Last(progress').i = Len(wo_numbers')
              /\ Last(progress').pct = 100 ]_vars

C12_Witness ==
    /\ pc = "returned" /\ total = 3 /\ callback = "returns"
    /\ Len(progress) = 4 /\ Last(progress).pct = 100
    /\ progress[2].pct = 33 /\ progress[3].pct = 66
    /\ ~log[1].acquired /\ Len(ret) = 2

\* C13 as stated: a progress callback that raises never stops the run.
C13_SinkNeverStopsPipeline == raised_by # "progress_callback"

\* C14: every unit that is suspended in an await of the acquisition ends,
\* with a record or None, and the batch run ends.
C14_UnitAlwaysReturns ==
    /\ [](stage \in AwaitStages => <>(stage = "unit_done"))
    /\ <>(pc \in {"returned", "raised"})
    /\ [](callback # "raises" => <>(pc = "returned"))

C14_Witness ==
    /\ cancelled /\ stage = "unit_done" /\ data = <<>>
    /\ Visited("content", "ok") /\ Visited("ok_close", "CancelledError")
    /\ Visited("pw_exit", "ok")

\* C15: at most one browser session is open at any time, it belongs to the
\* identifier whose unit is running, and none is open when a unit is called
\* or when the loop is between two units.
C15_OneSessionAtATime ==
    /\ Cardinality(open) <= 1
    /\ open # {} => (pc = "await_unit" /\ stage \in AwaitStages /\ open = {wo_number})
    /\ pc \in {"progress", "call_unit", "sleep", "return", "returned"} => open = {}

C15_Witness ==
    /\ i = 2 /\ stage = "goto" /\ open = {wo_numbers[2]}
    /\ log[1].timeout

\* The stages of one call of fetch_detail_html in the order of the code:
\* Session Init (the first four), Navigate, Settle, Readiness Gate, Capture
StageOrder ==
    <<"pw_start", "launch", "new_context", "new_page", "goto", "settle", "gate",
      "content">>

Rank(st) == CHOOSE k \in 1..Len(StageOrder) : StageOrder[k] = st

Failures == {"PlaywrightTimeout", "Error"}

InitFailed ==
    \E st \in {"pw_start", "launch", "new_context", "new_page"} :
       \E o \in Failures : Visited(st, o)

NavigationFailed == \E o \in Failures : Visited("goto", o)

\* C16: within one call the stages are entered in the order of the code,
\* each at most once and each only after the one before it has completed
\* (for the gate: completed or timed out); after a failed session init or a
\* failed navigation neither settle nor gate nor capture is entered and the
\* call delivers no document.
C16_StagesInOrderNoRetry ==
    /\ \A a, b \in 1..Len(path) :
          (a < b /\ path[a][1] \in Range(StageOrder) /\ path[b][1] \in Range(StageOrder))
             => Rank(path[a][1]) < Rank(path[b][1])
    /\ \A b \in 1..Len(path) :
          (path[b][1] \in Range(StageOrder) /\ Rank(path[b][1]) > 1) =>
             \E a \in 1..(b - 1) :
                /\ path[a][1] = StageOrder[Rank(path[b][1]) - 1]
                /\ \/ path[a][2] = "ok"
                   \/ path[a] = <<"settle", "PlaywrightTimeout">>
    /\ (InitFailed \/ NavigationFailed) =>
          /\ \A k \in 1..Len(path) : path[k][1] \notin {"settle", "gate", "content"}
          /\ stage \notin {"settle", "gate", "gate_close", "content", "ok_close", "parse"}
          /\ html = <<>>
          /\ stage = "unit_done" => (data = <<>> /\ ~Last(log).acquired)

C16_Witness ==
    /\ stage = "unit_done" /\ ~cancelled /\ data = <<>>
    /\ Visited("goto", "PlaywrightTimeout") /\ Visited("timeout_close", "ok")

\* C17: a settle wait that times out leaves the call exactly where a settle
\* wait that completes leaves it: at the gate, the session open, nothing
\* else changed; the call then delivers a document when the gate, the
\* capture and the close succeed.
C17_SettleTimeoutNotFatal ==
    [][ /\ (Len(path') > Len(path) /\ Last(path')[1] = "settle"
              /\ Last(path')[2] \in {"ok", "PlaywrightTimeout"}) =>
              /\ stage' = "gate"
              /\ wo_number \in open'
              /\ UNCHANGED <<inputs, coord, open, pending, html, data, cancelled,
                             discovered, started, sleeps, parsed, log, progress>>
        /\ (Visited("settle", "PlaywrightTimeout")' /\ stage' = "parse") =>
              (Visited("gate", "ok")' /\ html' # <<>>)
        /\ (Visited("settle", "PlaywrightTimeout")' /\ Visited("gate", "PlaywrightTimeout")'
              /\ stage' = "unit_done") => ~Last(log').acquired
        /\ (Visited("settle", "PlaywrightTimeout")' /\ Visited("ok_close", "ok")'
              /\ ~cancelled' /\ stage' = "unit_done") => Last(log').acquired ]_vars

C17_Witness ==
    /\ stage = "unit_done" /\ ~cancelled
    /\ Visited("settle", "PlaywrightTimeout") /\ Visited("gate", "ok")
    /\ Last(log).acquired /\ data # <<>>

\* C18: one pacing delay has been completed for every unit already over,
\* whatever its outcome, except that none follows the last identifier: the
\* delay after identifier k is complete before the callback and the unit of
\* identifier k+1, and a finished batch of total identifiers has slept
\* total-1 times.
C18_PacingBetweenIdentifiers ==
    /\ pc \in {"progress", "call_unit"} =>
          (sleeps = Len(log) /\ sleeps = Len(started))
    /\ pc = "await_unit" => sleeps = Len(started) - 1
    /\ pc = "sleep" => (sleeps = Len(log) - 1 /\ Len(log) < total)
    /\ (pc \in {"return", "returned"} /\ wo_numbers # <<>>) =>
          (sleeps = total - 1 /\ Len(log) = total)
    /\ \A k \in IdentifierCalls : progress[k].i <= sleeps + 1

C18_Witness ==
    /\ pc = "returned" /\ total = 3 /\ sleeps = 2
    /\ log[1].acquired /\ ~log[1].extracted
    /\ Succeeded(2) /\ Succeeded(3)

\* What a field's own chain gives: the first label span with the text L,
\* its container, and the value, person list or classification entries in
\* that container.
OwnElement(d, L) ==
    LET own == {k \in 1..Len(d.elems) : d.elems[k].label = L}
    IN IF own = {} THEN <<>>
       ELSE <<d.elems[CHOOSE k \in own : \A m \in own : k <= m]>>

OwnValue(d, L) ==
    LET e == OwnElement(d, L)
    IN IF e # <<>> /\ e[1].container /\ e[1].value \notin {None, ""}
       THEN e[1].value ELSE None

OwnNames(d, L) ==
    LET e == OwnElement(d, L)
    IN IF e # <<>> /\ e[1].container /\ e[1].list
       THEN NonEmptyTexts(e[1].names) ELSE <<>>

OwnCodes(d, L) ==
    LET e == OwnElement(d, L)
    IN IF e # <<>> /\ e[1].container THEN NonEmptyTexts(e[1].codes) ELSE <<>>

\* parse_biblio_data has just turned the document html[1] into the record
\* parsed'[1], with its fields assembled
Extracted ==
    /\ stage = "parse" /\ parsed' # <<>>
    /\ DOMAIN parsed'[1].biblio_data # {}

\* Every field but cpc_codes is what its own chain gives, and the success
\* flag follows the publication number and the title alone.
LocalExceptCpc(d, r) ==
    LET bd == r.biblio_data
    IN /\ bd.publication_number = OwnValue(d, "Publication Number")
       /\ bd.publication_date = OwnValue(d, "Publication Date")
       /\ bd.application_number = OwnValue(d, "International Application No.")
       /\ bd.filing_date = OwnValue(d, "International Filing Date")
       /\ bd.title = OwnValue(d, "Title")
       /\ bd.abstract = OwnValue(d, "Abstract")
       /\ bd.priority_data = OwnValue(d, "Priority Data")
       /\ bd.applicants = OwnNames(d, "Applicants")
       /\ bd.inventors = OwnNames(d, "Inventors")
       /\ bd.ipc_codes = OwnCodes(d, "IPC")
       /\ (OwnElement(d, "Publication Number") = <<>> /\ OwnElement(d, "Title") = <<>>)
             => ~r.extraction_successful
       /\ (OwnValue(d, "Publication Number") # None /\ OwnValue(d, "Title") # None)
             => r.extraction_successful

\* C19 as stated: every field of the record, cpc_codes included, is what its
\* own label/container/value chain gives, whatever the chains of the other
\* fields do.
C19_FieldsResolveLocally ==
    [][ Extracted =>
           /\ LocalExceptCpc(html[1], parsed'[1])
           /\ parsed'[1].biblio_data.cpc_codes = OwnCodes(html[1], "CPC") ]_vars

\* The part of C19 that the code keeps: the fields other than cpc_codes.
C19_OtherFieldsResolveLocally ==
    [][ Extracted => LocalExceptCpc(html[1], parsed'[1]) ]_vars

\* C20 as stated: cpc_codes holds the classification entries of the CPC
\* label's own container, in document order, whatever the IPC container
\* holds and whether or not there is an IPC label.
C20_CpcFromOwnContainer ==
    [][ Extracted =>
           LET cpc == OwnElement(html[1], "CPC")
               ipc == OwnElement(html[1], "IPC")
               bd == parsed'[1].biblio_data
           IN /\ cpc # <<>> => bd.cpc_codes = NonEmptyTexts(cpc[1].codes)
              /\ (cpc # <<>> /\ ipc # <<>> /\ cpc[1].codes # ipc[1].codes)
                    => bd.cpc_codes # bd.ipc_codes ]_vars

====
